---- MODULE Spec2Model ----
(***************************************************************************)
(* Model of minawan-watch-party (src/main.rs): the Twitch listener task,   *)
(* the bounded tokio mpsc channel that carries TwitchMessage values to the *)
(* Bevy application, and the Bevy Update systems that own the table of     *)
(* active users and the sprites waiting for their image.                   *)
(*                                                                         *)
(* Two domains run concurrently: the listener (start_twitch_client, a      *)
(* tokio task) and the Bevy frame loop.  One frame runs each Update system *)
(* once, in an order the scheduler chooses, and applies the deferred       *)
(* Commands of all systems when the schedule ends.                         *)
(***************************************************************************)
EXTENDS Integers, Sequences, FiniteSets, TLC

\* ------------------------------------------------------------- bounds
\* Number of server messages the incoming stream delivers before it ends.
MaxMsgs == 3
\* Emote occurrences in one chat line.
MaxEmotes == 2
\* The frame clock saturates here (Instant::now(), counted in frames).
MaxTick == 3
\* Inactivity threshold of despawn_users, in frames.
Threshold == 2
\* Capacity of the channel: mpsc::channel(100), scaled down.
Capacity == 2
\* Largest width and height of a loaded image.
MaxDim == 2

Users == {"alice", "bob"}
Tokens == {"Kappa", "PogChamp"}

\* Height every finalized sprite is scaled to (the literal 46.0).
TargetHeight == 46

NoMsg == [id |-> 0]
NotLoaded == <<0, 0>>
NoSize == <<0, 0, 1>>

Systems == {"despawn_users", "handle_twitch_messages", "adjust_sprite_scale_system"}

VARIABLES
    \* listener task (start_twitch_client)
    lpc,            \* "recv" | "send" | "done"
    received,       \* server messages taken from incoming_messages so far
    twitch_message, \* the message built from the current Privmsg, or NoMsg
    seen_emotes,    \* HashSet<String> of line 153
    resolveCount,   \* history: calls of update_emote_meta, per token
    privmsgs,       \* history: ids of the server messages that were Privmsg
    suspended,      \* history: ids whose send found the channel full
    failed,         \* history: tokens for which a fetch has failed
    \* channel
    queue,          \* messages buffered in the mpsc channel
    sentLog,        \* history: ids in the order tx.send completed
    recvLog,        \* history: ids in the order try_recv returned them
    \* Bevy application
    program_state,  \* AppState.program_state
    now,            \* frame clock read by Instant::now()
    todo,           \* Update systems that have not yet run in this frame
    draining,       \* handle_twitch_messages is inside its while loop
    viewport,       \* Camera::logical_viewport_rect() is Some
    crashed,        \* a system panicked: the process is gone
    active_users,   \* AppState.active_users, a set of User rows
    emote_all,      \* EmoteStorage.all
    nextEntity,     \* next Entity id the world hands out
    world,          \* spawned entities: id -> components
    images,         \* Assets<Image>: entity's texture -> dimensions
    cmds,           \* deferred Commands of this frame
    \* history of the consumer
    handledAt,      \* identity -> frame of its last handled message
    evicted,        \* history: identity and avatar of every evicted session
    bubbles,        \* parent entity of every display_message call, in order
    finalized       \* entity -> times the sweep finalized it

lvars == <<lpc, received, twitch_message, seen_emotes, resolveCount, privmsgs,
           suspended, failed>>
qvars == <<queue, sentLog, recvLog>>
cvars == <<program_state, now, todo, draining, viewport, crashed, active_users,
           emote_all, nextEntity, world, images, cmds, handledAt, evicted,
           bubbles, finalized>>
vars == <<lvars, qvars, cvars>>

\* ------------------------------------------------------------- helpers
Range(s) == {s[i] : i \in DOMAIN s}

SeqsUpTo(S, n) == UNION {[1..k -> S] : k \in 0..n}

Min(a, b) == IF a < b THEN a ELSE b

IsPrefix(s, t) == Len(s) <= Len(t) /\ \A i \in 1..Len(s) : s[i] = t[i]

\* ------------------------------------------------------------- channel
\* mpsc::channel(100) of line 53: the buffer holds at most Capacity values.
ChannelFull(q) == Len(q) >= Capacity

\* tokio mpsc Sender::send: completes when the channel has a free slot and
\* appends the value; until then the sending task stays suspended.
ChannelSend(q, m) == Append(q, m)

\* Mutant: try_recv hands out the newest buffered value.
ChannelFront_Newest(q) == q[Len(q)]

\* tokio mpsc Receiver::try_recv: the oldest buffered value.
ChannelFront(q) == Head(q)

\* Mutant: try_recv leaves the value in the buffer.
ChannelRest_Peek(q) == q

\* What try_recv leaves in the buffer.
ChannelRest(q) == Tail(q)

\* ------------------------------------------------------------- listener
\* emote.into() of line 162: the project's emote record made from a Twitch
\* emote occurrence; its metadata is not resolved yet.
FromTwitchEmote(tok) == [name |-> tok, meta |-> "raw"]

\* update_emote_meta (module emotes): fetches the metadata of one emote and
\* writes it into the record; a failed fetch leaves the record as it was.
update_emote_meta(emote, ok) ==
    IF ok THEN [emote EXCEPT !.meta = "resolved"] ELSE emote

\* Mutant: the loop visits every occurrence, seen or not.
UnseenOccurrences_All(emotes, seen) == DOMAIN emotes

\* The filter of lines 168-171: the occurrences the for loop visits.  The
\* closure reads seen_emotes, which the loop body does not change.
UnseenOccurrences(emotes, seen) ==
    {i \in DOMAIN emotes : emotes[i].name \notin seen}

\* Lines 168-175: the emote list after the loop; ok[i] is the outcome of the
\* fetch for occurrence i.
ResolveEmotes(emotes, seen, ok) ==
    [i \in DOMAIN emotes |->
        IF i \in UnseenOccurrences(emotes, seen)
        THEN update_emote_meta(emotes[i], ok[i])
        ELSE emotes[i]]

\* Mutant: the names of the resolved emotes are not collected.
NewEmotes_Forgotten(emotes, seen) == {}

\* new_emotes of lines 165-175.
NewEmotes(emotes, seen) ==
    {emotes[i].name : i \in UnseenOccurrences(emotes, seen)}

\* Calls of update_emote_meta the loop makes for token t.
ResolveCalls(emotes, seen, t) ==
    Cardinality({i \in UnseenOccurrences(emotes, seen) : emotes[i].name = t})

\* Lines 156-176: a Privmsg arrives; the message is built and its unseen
\* emotes are resolved one after the other.  Only listener-local state is
\* touched, so the awaits inside the loop need no interleaving points.
ListenerPrivmsg(users, lines) ==
    /\ ~crashed
    /\ lpc = "recv"
    /\ received < MaxMsgs
    /\ \E user \in users, toks \in lines :
         LET emotes == [i \in DOMAIN toks |-> FromTwitchEmote(toks[i])]
             unseen == UnseenOccurrences(emotes, seen_emotes)
         IN  \E ok \in [unseen -> BOOLEAN] :
               /\ twitch_message' =
                    [id |-> received + 1, user |-> user,
                     emotes |-> ResolveEmotes(emotes, seen_emotes, ok)]
               /\ resolveCount' =
                    [t \in Tokens |->
                        resolveCount[t] + ResolveCalls(emotes, seen_emotes, t)]
               /\ seen_emotes' = seen_emotes \cup NewEmotes(emotes, seen_emotes)
               /\ failed' = failed \cup {emotes[i].name : i \in {j \in unseen : ~ok[j]}}
    /\ received' = received + 1
    /\ privmsgs' = privmsgs \cup {received + 1}
    /\ suspended' = IF ChannelFull(queue) THEN suspended \cup {received + 1}
                    ELSE suspended
    /\ lpc' = "send"
    /\ UNCHANGED <<qvars, cvars>>

\* Line 157: any other ServerMessage is skipped.
ListenerOther ==
    /\ ~crashed
    /\ lpc = "recv"
    /\ received < MaxMsgs
    /\ received' = received + 1
    /\ UNCHANGED <<lpc, twitch_message, seen_emotes, resolveCount, privmsgs,
                   suspended, failed, qvars, cvars>>

\* Mutant: the listener enters the emotes of the message it sends into the
\* emote cache.
ListenerSend_Caching ==
    /\ ~crashed
    /\ lpc = "send"
    /\ ~ChannelFull(queue)
    /\ queue' = ChannelSend(queue, twitch_message)
    /\ sentLog' = Append(sentLog, twitch_message.id)
    /\ LET new == Range(twitch_message.emotes)
       IN  emote_all' =
             [t \in DOMAIN emote_all \cup {e.name : e \in new} |->
                 IF t \in DOMAIN emote_all THEN emote_all[t]
                 ELSE CHOOSE e \in new : e.name = t]
    /\ twitch_message' = NoMsg
    /\ lpc' = "recv"
    /\ UNCHANGED <<received, seen_emotes, resolveCount, privmsgs, suspended,
                   failed, recvLog, program_state, now, todo, draining,
                   viewport, crashed, active_users, nextEntity, world, images,
                   cmds, handledAt, evicted, bubbles, finalized>>

\* Line 177: tx.send(twitch_message).await
ListenerSend ==
    /\ ~crashed
    /\ lpc = "send"
    /\ ~ChannelFull(queue)
    /\ queue' = ChannelSend(queue, twitch_message)
    /\ sentLog' = Append(sentLog, twitch_message.id)
    /\ twitch_message' = NoMsg
    /\ lpc' = "recv"
    /\ UNCHANGED <<received, seen_emotes, resolveCount, privmsgs, suspended,
                   failed, recvLog, cvars>>

\* Line 156: incoming_messages.recv() returns None, the loop and the task end.
ListenerStreamEnd ==
    /\ ~crashed
    /\ lpc = "recv"
    /\ lpc' = "done"
    /\ UNCHANGED <<received, twitch_message, seen_emotes, resolveCount, privmsgs,
                   suspended, failed, qvars, cvars>>

\* ------------------------------------------------------------- sessions
\* active_users.get_mut(&user) is Some (line 201).
HasUser(users, name) == \E r \in users : r.name = name

GetUser(users, name) == CHOOSE r \in users : r.name = name

\* Mutant: line 212 is missing, the time of the last message stays.
RefreshUser_Stale(users, name, t) == users

\* Line 212: user.last_message_time = Instant::now()
RefreshUser(users, name, t) ==
    {IF r.name = name THEN [r EXCEPT !.last_message_time = t] ELSE r : r \in users}

\* Mutant: the insert of lines 225-232 is missing.
InsertUser_Dropped(users, name, entity, t) == users

\* Lines 225-232: HashMap::insert replaces the row of an equal key.
InsertUser(users, name, entity, t) ==
    {r \in users : r.name # name}
        \cup {[name |-> name, entity |-> entity, last_message_time |-> t]}

\* Mutant: insert(name, emote) in place of entry(name).or_insert(emote), the
\* record of the event replaces the entry.
MergeEmotes_Overwrite(all, emotes) ==
    [t \in DOMAIN all \cup {e.name : e \in Range(emotes)} |->
        IF \E e \in Range(emotes) : e.name = t
        THEN emotes[CHOOSE i \in DOMAIN emotes :
                        /\ emotes[i].name = t
                        /\ \A j \in DOMAIN emotes : emotes[j].name = t => j <= i]
        ELSE all[t]]

\* Lines 194-199: entry(name).or_insert(emote), for the emotes in order.
RECURSIVE MergeEmotes(_, _)
MergeEmotes(all, emotes) ==
    IF emotes = <<>> THEN all
    ELSE LET e == Head(emotes)
             next == IF e.name \in DOMAIN all THEN all ELSE all @@ (e.name :> e)
         IN  MergeEmotes(next, Tail(emotes))

\* Mutant: the lookup of line 201 is skipped, every message takes the else
\* branch and inserts a row with the avatar just spawned.
UsersAfterMessage_AlwaysInsert(users, name, fresh, t) ==
    InsertUser(users, name, fresh, t)

\* Lines 201-233: the table after one message of `name` was handled; `fresh`
\* is the entity spawn_user returns when the else branch runs.
UsersAfterMessage(users, name, fresh, t) ==
    IF HasUser(users, name)
    THEN RefreshUser(users, name, t)
    ELSE InsertUser(users, name, fresh, t)

\* Lines 208 and 222: the entity display_message attaches the bubble to.
BubbleParent(users, name, fresh) ==
    IF HasUser(users, name) THEN GetUser(users, name).entity ELSE fresh

\* Mutant: spawn_user is called for every message.
SpawnsAvatar_Always(users, name) == TRUE

\* Line 216 runs (spawn_user is called) for this message.
SpawnsAvatar(users, name) == ~HasUser(users, name)

\* Line 215: query.single().logical_viewport_rect().unwrap() panics.
ViewportPanics(users, name, vp) == SpawnsAvatar(users, name) /\ ~vp

\* spawn_user (module users): Commands::spawn hands out the entity id at once
\* and queues the insertion of the sprite, which starts hidden, unscaled and
\* marked AdjustScale; the load of its image starts.
SpawnCommand(e) == [op |-> "spawn", entity |-> e]

DespawnCommand(e) == [op |-> "despawn", entity |-> e]

RemoveAdjustCommand(e) == [op |-> "remove_adjust", entity |-> e]

PendingSprite == [adjust |-> TRUE, visible |-> FALSE, custom_size |-> NoSize]

\* ------------------------------------------------------------- sprites
\* images.get_mut(texture_handle) is Some (line 270).
ImageLoaded(img) == img # NotLoaded

\* Mutant: the query of line 266 lacks the With<AdjustScale> filter.
SweepFinalizes_AnySprite(sprite, img) == ImageLoaded(img)

\* The query of line 266 (With<AdjustScale>) yields the sprite and line 270
\* finds its image.
SweepFinalizes(sprite, img) == sprite.adjust /\ ImageLoaded(img)

\* Mutant: the scale factor is taken from the width, 46.0 / width.
ScaledSize_ByWidth(img) == <<img[1] * TargetHeight, img[2] * TargetHeight, img[1]>>

\* Lines 271-275: scale_factor = 46.0 / height; custom_size = (width *
\* scale_factor, height * scale_factor).  The two values are kept as the
\* exact fractions <<width * 46, height * 46>> over the denominator height;
\* the rounding of the f32 operations (at most one unit in the last place of
\* each result) is not represented.
ScaledSize(img) == <<img[1] * TargetHeight, img[2] * TargetHeight, img[2]>>

\* Lines 275-276: the components of a finalized sprite.  The removal of the
\* marker (line 279) is a deferred command.
AdjustedSprite(sprite, img) ==
    [sprite EXCEPT !.custom_size = ScaledSize(img), !.visible = TRUE]

\* The deferred commands of a frame applied to the world when the Update
\* schedule ends.  Commands on different entities commute; for one entity a
\* despawn removes it whatever else was queued for it.
EntitiesAfter(w, cs) ==
    (DOMAIN w \cup {c.entity : c \in {d \in cs : d.op = "spawn"}})
        \ {c.entity : c \in {d \in cs : d.op = "despawn"}}

ApplyCommands(w, cs) ==
    [e \in EntitiesAfter(w, cs) |->
        IF e \notin DOMAIN w THEN PendingSprite
        ELSE IF RemoveAdjustCommand(e) \in cs THEN [w[e] EXCEPT !.adjust = FALSE]
        ELSE w[e]]

\* ------------------------------------------------------------- consumer
\* Startup system setup (lines 116-133): the camera is spawned, the channel's
\* 7TV emotes are loaded into EmoteStorage.all and the program is Running.
Setup(preloads) ==
    /\ ~crashed
    /\ program_state = "Loading"
    /\ \E pre \in preloads :
         emote_all' = [t \in pre |-> [name |-> t, meta |-> "7tv"]]
    /\ program_state' = "Running"
    /\ UNCHANGED <<lvars, qvars, now, todo, draining, viewport, crashed,
                   active_users, nextEntity, world, images, cmds, handledAt,
                   evicted, bubbles, finalized>>

\* Lines 192-234, one iteration of the while loop whose try_recv is Ok.
\* `loads` is what the asset server may hold for the image of a new avatar
\* when spawn_user asks for it: NotLoaded, or the dimensions of an image that
\* an earlier load already brought in.
HandleMessage(loads) ==
    /\ ~crashed
    /\ program_state = "Running"
    /\ "handle_twitch_messages" \in todo
    /\ queue # <<>>
    /\ LET m == ChannelFront(queue)
           fresh == nextEntity
       IN  /\ queue' = ChannelRest(queue)
           /\ recvLog' = Append(recvLog, m.id)
           /\ emote_all' = MergeEmotes(emote_all, m.emotes)
           /\ IF ViewportPanics(active_users, m.user, viewport)
              THEN /\ crashed' = TRUE
                   /\ UNCHANGED <<draining, active_users, nextEntity, images,
                                  cmds, handledAt, bubbles>>
              ELSE /\ draining' = TRUE
                   /\ active_users' =
                        UsersAfterMessage(active_users, m.user, fresh, now)
                   /\ bubbles' =
                        Append(bubbles, BubbleParent(active_users, m.user, fresh))
                   /\ handledAt' = [handledAt EXCEPT ![m.user] = now]
                   /\ IF SpawnsAvatar(active_users, m.user)
                      THEN /\ nextEntity' = nextEntity + 1
                           /\ cmds' = cmds \cup {SpawnCommand(fresh)}
                           /\ \E img \in loads :
                                images' = images @@ (fresh :> img)
                      ELSE UNCHANGED <<nextEntity, cmds, images>>
                   /\ UNCHANGED crashed
    /\ UNCHANGED <<lvars, sentLog, program_state, now, todo, viewport, world,
                   evicted, finalized>>

\* Line 192: try_recv reports no message (empty or closed channel); the loop
\* and the system end.
HandleDone ==
    /\ ~crashed
    /\ program_state = "Running"
    /\ "handle_twitch_messages" \in todo
    /\ queue = <<>>
    /\ todo' = todo \ {"handle_twitch_messages"}
    /\ draining' = FALSE
    /\ UNCHANGED <<lvars, qvars, program_state, now, viewport, crashed,
                   active_users, emote_all, nextEntity, world, images, cmds,
                   handledAt, evicted, bubbles, finalized>>

\* despawn_users (module users): the rows whose last message is at least the
\* inactivity threshold old.
Expired(users, t) == {r \in users : t - r.last_message_time >= Threshold}

\* despawn_users: every expired row is removed and its avatar despawned.
DespawnUsers ==
    /\ ~crashed
    /\ program_state = "Running"
    /\ "despawn_users" \in todo
    /\ ~draining
    /\ LET gone == Expired(active_users, now)
       IN  /\ active_users' = active_users \ gone
           /\ cmds' = cmds \cup {DespawnCommand(r.entity) : r \in gone}
           /\ evicted' = evicted \cup {[name |-> r.name, entity |-> r.entity] : r \in gone}
           /\ handledAt' =
                [u \in Users |->
                    IF u \in {r.name : r \in gone} THEN -1 ELSE handledAt[u]]
    /\ todo' = todo \ {"despawn_users"}
    /\ UNCHANGED <<lvars, qvars, program_state, now, draining, viewport, crashed,
                   emote_all, nextEntity, world, images, bubbles, finalized>>

\* adjust_sprite_scale_system (lines 264-282).
AdjustSpriteScale ==
    /\ ~crashed
    /\ program_state = "Running"
    /\ "adjust_sprite_scale_system" \in todo
    /\ ~draining
    /\ LET hit == {e \in DOMAIN world : SweepFinalizes(world[e], images[e])}
       IN  /\ world' = [e \in DOMAIN world |->
                           IF e \in hit THEN AdjustedSprite(world[e], images[e])
                           ELSE world[e]]
           /\ cmds' = cmds \cup {RemoveAdjustCommand(e) : e \in hit}
           /\ finalized' = [e \in DOMAIN world |->
                               IF e \in hit THEN finalized[e] + 1 ELSE finalized[e]]
    /\ todo' = todo \ {"adjust_sprite_scale_system"}
    /\ UNCHANGED <<lvars, qvars, program_state, now, draining, viewport, crashed,
                   active_users, emote_all, nextEntity, images, handledAt,
                   evicted, bubbles>>

\* The Update schedule ends: the deferred commands are applied, the camera
\* system of PostUpdate may have computed the viewport, and the next frame
\* starts one tick later.
EndFrame ==
    /\ ~crashed
    /\ program_state = "Running"
    /\ todo = {}
    /\ world' = ApplyCommands(world, cmds)
    /\ images' = [e \in DOMAIN images \ {c.entity : c \in {d \in cmds : d.op = "despawn"}}
                    |-> images[e]]
    /\ finalized' = [e \in DOMAIN world' |->
                        IF e \in DOMAIN finalized THEN finalized[e] ELSE 0]
    /\ cmds' = {}
    /\ now' = Min(now + 1, MaxTick)
    /\ todo' = Systems
    /\ viewport' \in {viewport, TRUE}
    /\ UNCHANGED <<lvars, qvars, program_state, draining, crashed, active_users,
                   emote_all, nextEntity, handledAt, evicted, bubbles>>

\* The asset server finishes loading the image of a sprite; the image enters
\* Assets<Image> between two runs of the Update schedule.
\* The dimensions tried: a tall, a wide and a square image.
ImageDims == {<<1, MaxDim>>, <<MaxDim, 1>>, <<MaxDim, MaxDim>>}

AssetLoaded ==
    /\ ~crashed
    /\ program_state = "Running"
    /\ todo = Systems
    /\ ~draining
    /\ \E e \in DOMAIN images, d \in ImageDims :
         /\ images[e] = NotLoaded
         /\ images' = [images EXCEPT ![e] = d]
    /\ UNCHANGED <<lvars, qvars, program_state, now, todo, draining, viewport,
                   crashed, active_users, emote_all, nextEntity, world, cmds,
                   handledAt, evicted, bubbles, finalized>>

\* ------------------------------------------------------------- system
Init ==
    /\ lpc = "recv"
    /\ received = 0
    /\ twitch_message = NoMsg
    /\ seen_emotes = {}
    /\ resolveCount = [t \in Tokens |-> 0]
    /\ privmsgs = {}
    /\ suspended = {}
    /\ failed = {}
    /\ queue = <<>>
    /\ sentLog = <<>>
    /\ recvLog = <<>>
    /\ program_state = "Loading"
    /\ now = 0
    /\ todo = Systems
    /\ draining = FALSE
    /\ viewport = FALSE
    /\ crashed = FALSE
    /\ active_users = {}
    /\ emote_all = <<>>
    /\ nextEntity = 1
    /\ world = <<>>
    /\ images = <<>>
    /\ cmds = {}
    /\ handledAt = [u \in Users |-> -1]
    /\ evicted = {}
    /\ bubbles = <<>>
    /\ finalized = <<>>

\* The bridge and the session table: chat lines of every user, with at most
\* one emote; no 7TV emote is preloaded and no image finishes loading (the
\* sprites feed nothing back into the channel or the table).
SessionLines == SeqsUpTo({"Kappa"}, 1)

Listener ==
    \/ ListenerPrivmsg(Users, SessionLines)
    \/ ListenerOther
    \/ ListenerSend
    \/ ListenerStreamEnd

Frame ==
    \/ HandleMessage({NotLoaded})
    \/ HandleDone
    \/ DespawnUsers
    \/ AdjustSpriteScale
    \/ EndFrame

Next == Listener \/ Setup({{}}) \/ Frame

Spec == Init /\ [][Next]_vars

\* The bridge under the scheduling the runtimes give: the Bevy runner keeps
\* running frames, the Startup schedule runs, and tokio polls the listener's
\* pending send again once the channel has room.  Nothing makes the chat
\* deliver another message.  The chat lines carry no emotes: the emote list
\* of a message has no part in what the channel does with it.
BridgeNext ==
    \/ ListenerPrivmsg(Users, {<<>>})
    \/ ListenerOther
    \/ ListenerSend
    \/ ListenerStreamEnd
    \/ Setup({{}})
    \/ Frame

FairSpec ==
    /\ Init
    /\ [][BridgeNext]_vars
    /\ WF_vars(Setup({{}}))
    /\ WF_vars(Frame)
    /\ WF_vars(ListenerSend)

\* The emote pipeline: one user, chat lines that repeat one token up to
\* MaxEmotes times or mix two tokens, and a 7TV preload that may already hold
\* a token.
EmoteLines ==
    {[i \in 1..k |-> "Kappa"] : k \in 0..MaxEmotes} \cup {<<"Kappa", "PogChamp">>}

EmotePreloads == {{}, {"Kappa"}}

EmoteNext ==
    \/ ListenerPrivmsg({"alice"}, EmoteLines)
    \/ ListenerSend
    \/ ListenerStreamEnd
    \/ Setup(EmotePreloads)
    \/ Frame

EmoteSpec == Init /\ [][EmoteNext]_vars

\* The sprites: emote-less chat lines of every user, images that finish
\* loading between frames or are already loaded when the avatar is spawned.
VisualNext ==
    \/ ListenerPrivmsg(Users, {<<>>})
    \/ ListenerSend
    \/ ListenerStreamEnd
    \/ Setup({{}})
    \/ HandleMessage({NotLoaded} \cup ImageDims)
    \/ HandleDone
    \/ DespawnUsers
    \/ AdjustSpriteScale
    \/ EndFrame
    \/ AssetLoaded

VisualSpec == Init /\ [][VisualNext]_vars

\* ------------------------------------------------------------- properties
Ids(q) == [i \in 1..Len(q) |-> q[i].id]

NoDuplicates(s) == \A i, j \in DOMAIN s : s[i] = s[j] => i = j

Names(users) == {r.name : r \in users}

\* try_recv returned a message in this step.
ReceivedStep == Len(recvLog') = Len(recvLog) + 1

\* despawn_users ran in this step.
ScanStep == "despawn_users" \in todo /\ "despawn_users" \notin todo'

\* C1: update_emote_meta is called at most once for every token over the
\* whole run, also when a chat line holds the token more than once.
C1_ResolvedAtMostOnce == \A t \in Tokens : resolveCount[t] <= 1

\* C2: the table holds at most one row per identity, and handling a message
\* of an identity that has a row spawns nothing: the row keeps its avatar,
\* its time becomes the current one and the bubble goes to that avatar.
C2_OneSession ==
    \A r1, r2 \in active_users : r1.name = r2.name => r1 = r2

C2_ExistingKept ==
    (ReceivedStep /\ HasUser(active_users, Head(queue).user)) =>
        LET old == GetUser(active_users, Head(queue).user)
        IN  /\ ~crashed'
            /\ active_users' = (active_users \ {old})
                                 \cup {[old EXCEPT !.last_message_time = now]}
            /\ nextEntity' = nextEntity
            /\ cmds' = cmds
            /\ bubbles' = Append(bubbles, old.entity)

C2_SessionPerIdentity == []C2_OneSession /\ [][C2_ExistingKept]_vars

C2_Witness == Len(bubbles) >= 2 /\ bubbles[1] = bubbles[2]

\* C3: the messages come out of the channel in the order they were sent:
\* what was received is a prefix of what was sent, and the rest is what the
\* channel still buffers, in order.
C3_Fifo ==
    /\ IsPrefix(recvLog, sentLog)
    /\ sentLog = recvLog \o Ids(queue)

C3_Witness == recvLog = <<1, 2>> /\ Len(queue) = 1

\* C4: after the eviction scan no session is left whose last message is at
\* least Threshold frames old, and a session disappears only in the scan and
\* only when its last handled message is at least Threshold frames old,
\* whether the scan runs before or after the handler in the frame.
C4_EvictsStale ==
    ScanStep =>
        \A r \in active_users' : now - handledAt[r.name] < Threshold

C4_KeepsFresh ==
    \A u \in Names(active_users) \ Names(active_users') :
        ScanStep /\ now - handledAt[u] >= Threshold

C4_Eviction == [][C4_EvictsStale /\ C4_KeepsFresh]_vars

C4_Witness ==
    /\ evicted # {}
    /\ \E r \in active_users : r.last_message_time > 0 /\ now - r.last_message_time = 1

\* C5: a listener whose send finds the channel full keeps its message, and
\* with frames running the message is eventually received, in order.
C5_KeptWhileFull ==
    (lpc = "send" /\ ChannelFull(queue)) =>
        lpc' = "send" /\ twitch_message' = twitch_message

C5_SuspendedDelivered ==
    /\ [][C5_KeptWhileFull]_vars
    /\ \A i \in 1..MaxMsgs :
         (lpc = "send" /\ twitch_message.id = i /\ ChannelFull(queue))
            ~> (i \in Range(recvLog) /\ IsPrefix(recvLog, sentLog))

\* C6: every Privmsg gives exactly one message to the channel and no other
\* server message gives one; a sent message is received at most once, is in
\* the channel until then, and is received as long as the application runs.
C6_OnePerLine ==
    /\ privmsgs = Range(sentLog)
                    \cup (IF lpc = "send" THEN {twitch_message.id} ELSE {})
    /\ NoDuplicates(sentLog)

C6_AtMostOnce ==
    /\ NoDuplicates(recvLog)
    /\ NoDuplicates(Ids(queue))
    /\ Range(sentLog) = Range(recvLog) \cup Range(Ids(queue))
    /\ Range(recvLog) \cap Range(Ids(queue)) = {}

C6_Eventually ==
    \A i \in 1..MaxMsgs :
        (i \in Range(sentLog)) ~> (i \in Range(recvLog) \/ crashed)

C6_ExactlyOnce == [](C6_OnePerLine /\ C6_AtMostOnce) /\ C6_Eventually

C6_Witness == \E i \in suspended : i \in Range(recvLog)

\* C7: the application never panics while it handles a message.
C7_NoCrash == ~crashed

\* C8: the sweep finalizes a sprite at most once, and no step changes the
\* size, the visibility or the marker of a sprite whose marker is removed.
C8_AtMostOnce == \A e \in DOMAIN finalized : finalized[e] <= 1

C8_ReadyStable ==
    \A e \in DOMAIN world :
        (~world[e].adjust /\ e \in DOMAIN world') => world'[e] = world[e]

C8_FinalizedOnce == []C8_AtMostOnce /\ [][C8_ReadyStable]_vars

C8_Witness ==
    /\ "adjust_sprite_scale_system" \notin todo
    /\ \E e \in DOMAIN world : ~world[e].adjust /\ finalized[e] = 1

\* C9: a run of the sweep leaves every marked sprite whose image is not
\* loaded as it was, and makes every marked sprite whose image is loaded
\* visible, 46 high and as wide as the image's aspect ratio makes it; so
\* once the sweep has run in a frame no marked sprite with a loaded image is
\* left unscaled, whenever the image arrived.
SweepStep ==
    /\ "adjust_sprite_scale_system" \in todo
    /\ "adjust_sprite_scale_system" \notin todo'

C9_Scaled(sprite, img) ==
    /\ sprite.visible
    /\ sprite.custom_size[3] > 0
    /\ sprite.custom_size[2] = TargetHeight * sprite.custom_size[3]
    /\ sprite.custom_size[1] * img[2] = img[1] * sprite.custom_size[2]

C9_Sweep ==
    SweepStep =>
        \A e \in DOMAIN world :
            world[e].adjust =>
                IF ImageLoaded(images[e])
                THEN C9_Scaled(world'[e], images[e])
                ELSE world'[e] = world[e]

C9_AfterSweep ==
    "adjust_sprite_scale_system" \notin todo =>
        \A e \in DOMAIN world :
            (world[e].adjust /\ ImageLoaded(images[e]))
                => C9_Scaled(world[e], images[e])

C9_VisibleWhenLoaded == []C9_AfterSweep /\ [][C9_Sweep]_vars

C9_Witness ==
    \E e1, e2 \in DOMAIN world :
        /\ images[e1][1] # images[e1][2]
        /\ C9_Scaled(world[e1], images[e1])
        /\ ~ImageLoaded(images[e2])
        /\ ~world[e2].visible

\* C10: no session holds the avatar of an evicted session, and a message of
\* an identity without a session gives it a session whose avatar is an
\* entity spawned in this step.
C10_NoRevival ==
    \A r \in active_users : \A g \in evicted : g.entity # r.entity

C10_NewSession ==
    (ReceivedStep /\ ~crashed' /\ ~HasUser(active_users, Head(queue).user)) =>
        LET u == Head(queue).user
        IN  /\ HasUser(active_users', u)
            /\ GetUser(active_users', u).entity = nextEntity
            /\ nextEntity' = nextEntity + 1
            /\ SpawnCommand(nextEntity) \in cmds'
            /\ nextEntity \notin DOMAIN world
            /\ \A g \in evicted : g.entity # nextEntity

C10_NoResurrection == []C10_NoRevival /\ [][C10_NewSession]_vars

C10_Witness == \E r \in active_users : \E g \in evicted : g.name = r.name

\* ---------------------------------------------------------------- C11
\* A Privmsg was turned into twitch_message in this step.
ArrivalStep == lpc = "recv" /\ lpc' = "send"

\* tx.send completed in this step.
SendStep == Len(sentLog') = Len(sentLog) + 1

\* C11 as stated: every occurrence of the message built in this step carries
\* resolved metadata, unless a fetch for its token has failed.
C11_EveryOccurrence ==
    ArrivalStep =>
        \A i \in DOMAIN twitch_message'.emotes :
            \/ twitch_message'.emotes[i].meta = "resolved"
            \/ twitch_message'.emotes[i].name \in failed'

C11_AllResolved == [][C11_EveryOccurrence]_vars

\* The occurrences of tokens seen before the message keep the unresolved
\* record emote.into() made; the others are resolved or their fetch failed.
C11_UnseenOnly ==
    ArrivalStep =>
        \A i \in DOMAIN twitch_message'.emotes :
            LET e == twitch_message'.emotes[i]
            IN  IF e.name \in seen_emotes
                THEN e.meta = "raw"
                ELSE e.meta = "resolved" \/ (e.meta = "raw" /\ e.name \in failed')

\* tx.send hands over the message as the loop left it.
C11_SentAsBuilt == SendStep => queue' = Append(queue, twitch_message)

\* C11 (amended): a sent ChatEvent carries resolved metadata exactly for the
\* occurrences of tokens that were unseen when the message arrived and whose
\* fetch succeeded; occurrences of tokens seen in an earlier message are sent
\* unresolved.
C11_ResolvedWhenUnseen == [][C11_UnseenOnly /\ C11_SentAsBuilt]_vars

\* An event on the bridge holds an unresolved occurrence of a token no fetch
\* has failed for: the token was seen before the message arrived.
C11_Witness ==
    \E k \in DOMAIN queue : \E i \in DOMAIN queue[k].emotes :
        /\ queue[k].emotes[i].meta = "raw"
        /\ queue[k].emotes[i].name \notin failed

\* ---------------------------------------------------------------- C12
\* handle_twitch_messages displayed the received message in this step.
DisplayStep == ReceivedStep /\ ~crashed'

\* The message built in this step holds a token an earlier message held, and
\* that token has been resolved exactly once.
C12_ResolvedOnce ==
    ArrivalStep =>
        \A i \in DOMAIN twitch_message'.emotes :
            twitch_message'.emotes[i].name \in seen_emotes =>
                resolveCount'[twitch_message'.emotes[i].name] = 1

\* When a message is displayed the cache holds, for each of its tokens, the
\* metadata the resolution produced (none if the fetch failed).
C12_CacheHoldsResolution ==
    DisplayStep =>
        \A i \in DOMAIN ChannelFront(queue).emotes :
            LET t == ChannelFront(queue).emotes[i].name
            IN  /\ t \in DOMAIN emote_all'
                /\ t \notin failed => emote_all'[t].meta = "resolved"

\* C12: of two successive messages holding token T, T is resolved exactly
\* once, and when each of them is displayed the cache holds for T the
\* metadata of that resolution.
C12_OnceAndCached == [][C12_ResolvedOnce /\ C12_CacheHoldsResolution]_vars

\* What the code does guarantee: the later message triggers no resolution of
\* T, and at display the cache holds an entry for T, which is the 7TV preload,
\* the resolved record, or the unresolved record of a failed fetch.
C12_LaterMessageFree ==
    /\ ArrivalStep =>
        \A i \in DOMAIN twitch_message'.emotes :
            LET t == twitch_message'.emotes[i].name
            IN  t \in seen_emotes =>
                    resolveCount'[t] = resolveCount[t] /\ resolveCount[t] >= 1
    /\ DisplayStep =>
        \A i \in DOMAIN ChannelFront(queue).emotes :
            LET t == ChannelFront(queue).emotes[i].name
            IN  /\ t \in DOMAIN emote_all'
                /\ \/ emote_all'[t].meta \in {"7tv", "resolved"}
                   \/ t \in failed

C12_SecondMessageCached == [][C12_LaterMessageFree]_vars

\* ---------------------------------------------------------------- C13
\* A fetch failed while the message of this step was built.
FetchFailedStep ==
    /\ ArrivalStep
    /\ \E i \in DOMAIN twitch_message'.emotes :
         /\ twitch_message'.emotes[i].name \notin seen_emotes
         /\ twitch_message'.emotes[i].meta = "raw"

\* A token whose fetch failed is in the seen set.
C13_FailedSeen == failed \subseteq seen_emotes

\* The step with the failed fetch ends at tx.send with the whole message.
C13_Proceeds ==
    FetchFailedStep =>
        /\ lpc' = "send"
        /\ twitch_message'.id = received + 1
        /\ {twitch_message'.emotes[i].name : i \in DOMAIN twitch_message'.emotes}
               \subseteq seen_emotes'

\* The message stays at tx.send until it is appended to the channel.
C13_KeptUntilSent ==
    lpc = "send" =>
        \/ lpc' = "send" /\ twitch_message' = twitch_message
        \/ SendStep /\ queue' = Append(queue, twitch_message)

\* tx.send can complete whenever the channel has room.
C13_SendReady ==
    (lpc = "send" /\ ~ChannelFull(queue) /\ ~crashed) => ENABLED ListenerSend

\* No later message makes a call of update_emote_meta for a failed token.
C13_NoRetry ==
    ArrivalStep => \A t \in failed : resolveCount'[t] = resolveCount[t]

\* C13: a failed fetch does not stop the listener: the token is added to the
\* seen set, the event is sent, and no later message retries the token.
C13_FailureTolerated ==
    /\ []C13_FailedSeen
    /\ []C13_SendReady
    /\ [][C13_Proceeds /\ C13_KeptUntilSent /\ C13_NoRetry]_vars

\* Two events holding Kappa are on the bridge, Kappa's only fetch failed.
C13_Witness ==
    /\ "Kappa" \in failed
    /\ resolveCount["Kappa"] = 1
    /\ Len(queue) = 2
    /\ \A k \in DOMAIN queue :
         \E i \in DOMAIN queue[k].emotes : queue[k].emotes[i].name = "Kappa"

\* ---------------------------------------------------------------- C14
\* The avatar handles stored in the session table.
Handles(users) == {r.entity : r \in users}

\* The avatars spawn_user has spawned and despawn_users has not despawned:
\* both go through Commands, so the world catches up when the frame ends.
LiveAvatars == EntitiesAfter(world, cmds)

\* The table's handles are the live avatars, one row per avatar; between
\* frames, when no command is pending, they are the entities of the world.
C14_HandlesLive ==
    /\ Handles(active_users) = LiveAvatars
    /\ \A r, s \in active_users : r.entity = s.entity => r = s
    /\ cmds = {} => Handles(active_users) = DOMAIN world

\* A despawn is issued only by despawn_users, for the avatar of a row it
\* removes in the same step, and never for an avatar despawned before; every
\* removed row has its avatar despawned.
C14_DespawnAtEviction ==
    /\ \A c \in cmds' \ cmds :
         c.op = "despawn" =>
            /\ ScanStep
            /\ c.entity \in Handles(active_users \ active_users')
            /\ c.entity \notin {x.entity : x \in evicted}
    /\ \A r \in active_users :
         r.name \notin Names(active_users') =>
            DespawnCommand(r.entity) \in cmds'

\* C14: the handles in the session table are exactly the avatars spawned and
\* not yet despawned, and each avatar is despawned exactly once, at the
\* eviction of its session.
C14_SessionsAreAvatars == []C14_HandlesLive /\ [][C14_DespawnAtEviction]_vars

\* One session was evicted and its avatar is being despawned while another
\* session holds a live avatar.
C14_Witness ==
    /\ \E x \in evicted :
         DespawnCommand(x.entity) \in cmds /\ x.entity \in DOMAIN world
    /\ \E r \in active_users : r.entity \in DOMAIN world

\* ---------------------------------------------------------------- C15
\* The message received in this step has no emotes and its sender no row.
NewVisitorStep ==
    /\ ReceivedStep
    /\ ChannelFront(queue).emotes = <<>>
    /\ ~HasUser(active_users, ChannelFront(queue).user)

\* One row and one bubble more; the seen set and the emote cache as before.
C15_Effect ==
    /\ Cardinality(active_users') = Cardinality(active_users) + 1
    /\ HasUser(active_users', ChannelFront(queue).user)
    /\ Len(bubbles') = Len(bubbles) + 1
    /\ seen_emotes' = seen_emotes
    /\ emote_all' = emote_all

\* C15: handling an event without emotes from an identity without a session
\* creates one session, attaches one bubble and leaves the seen set and the
\* emote cache as they were.
C15_OneSessionOneBubble == [][NewVisitorStep => C15_Effect]_vars

\* The same for the events whose handling does not panic.
C15_UnlessPanic == [][(NewVisitorStep /\ ~crashed') => C15_Effect]_vars

\* ---------------------------------------------------------------- C16
\* handle_twitch_messages has not finished in the current frame.
HandlerDue ==
    program_state = "Running" /\ "handle_twitch_messages" \in todo

\* C16: every frame's run of handle_twitch_messages ends: the while loop of
\* line 192 reaches a try_recv that reports no message, and the frame's
\* systems all finish, however the listener's sends interleave with it.
C16_TickCompletes ==
    /\ HandlerDue ~> ("handle_twitch_messages" \notin todo /\ ~draining)
    /\ (program_state = "Running" /\ todo # {}) ~> (todo = {})

\* The same for the frames in which the handler does not panic.
C16_CompletesUnlessPanic ==
    /\ HandlerDue ~> (("handle_twitch_messages" \notin todo /\ ~draining) \/ crashed)
    /\ (program_state = "Running" /\ todo # {}) ~> (todo = {} \/ crashed)

\* ---------------------------------------------------------------- C17
\* A step of the listener task.
ListenerStep == lvars' # lvars \/ SendStep

\* The Startup system setup ran in this step.
StartupStep == program_state = "Loading" /\ program_state' = "Running"

\* C17 as stated: only steps of the listener change the emote cache.
C17_ListenerWrites == [][emote_all' # emote_all => ListenerStep]_vars

\* The cache changes only in setup and in handle_twitch_messages; the handler
\* adds only records the received event carries.
C17_WrittenByConsumer ==
    /\ emote_all' # emote_all => (StartupStep \/ ReceivedStep)
    /\ ListenerStep => emote_all' = emote_all
    /\ ReceivedStep =>
         \A t \in DOMAIN emote_all' \ DOMAIN emote_all :
            \E i \in DOMAIN ChannelFront(queue).emotes :
                emote_all'[t] = ChannelFront(queue).emotes[i]

\* C17 (amended): the emote cache is written only by the consumer domain, by
\* the 7TV preload of startup and by the merge in the per-frame handler; no
\* step of the listener writes it.
C17_ConsumerWrites == [][C17_WrittenByConsumer]_vars

\* The cache holds a preloaded entry and an entry merged from an event.
C17_Witness ==
    /\ \E t \in DOMAIN emote_all : emote_all[t].meta = "7tv"
    /\ \E t \in DOMAIN emote_all : emote_all[t].meta # "7tv"

\* ---------------------------------------------------------------- C18
\* The listener task has ended: it stays ended and changes nothing.
C18_ListenerStopped == lpc = "done" => lvars' = lvars /\ sentLog' = sentLog

\* With the task ended and the channel drained, no frame receives a message
\* or panics, and only despawn_users changes the session table.
C18_QuietTicks ==
    (lpc = "done" /\ queue = <<>>) =>
        /\ ~ReceivedStep
        /\ crashed' = crashed
        /\ active_users' # active_users => ScanStep

\* Everything sent has been handled, in the order sent.
Drained == queue = <<>> /\ recvLog = sentLog

\* C18: when the chat stream ends the listener stops and sends nothing more,
\* the events on the bridge are still delivered in order, and the later frames
\* handle no event, complete without failure and change the session table
\* only by eviction.
C18_StreamEnd ==
    /\ [][C18_ListenerStopped /\ C18_QuietTicks]_vars
    /\ (lpc = "done") ~> (Drained /\ ~crashed)
    /\ (lpc = "done" /\ program_state = "Running" /\ todo # {}) ~> (todo = {})

\* The same for the runs in which the handler does not panic.
C18_StreamEndUnlessPanic ==
    /\ [][C18_ListenerStopped /\ C18_QuietTicks]_vars
    /\ (lpc = "done") ~> (Drained \/ crashed)
    /\ (lpc = "done" /\ program_state = "Running" /\ todo # {}) ~>
            (todo = {} \/ crashed)
    /\ [](IsPrefix(recvLog, sentLog))

\* ---------------------------------------------------------------- C19
\* Every entry of the cache is still there, unchanged, after the step.
C19_EntryKept ==
    \A t \in DOMAIN emote_all :
        t \in DOMAIN emote_all' /\ emote_all'[t] = emote_all[t]

\* An event all of whose tokens have entries leaves the cache as it was.
C19_KnownTokens ==
    (/\ ReceivedStep
     /\ \A i \in DOMAIN ChannelFront(queue).emotes :
            ChannelFront(queue).emotes[i].name \in DOMAIN emote_all)
        => emote_all' = emote_all

\* C19: the emote cache only grows and the first writer wins: an entry,
\* preloaded or merged from an event, is never removed or replaced, so a later
\* event with other metadata for the token leaves the cache unchanged.
C19_FirstWriterWins == [][C19_EntryKept /\ C19_KnownTokens]_vars

\* Kappa was preloaded from 7TV, and an event carrying the record the listener
\* resolved for Kappa has been handled since.
C19_Witness ==
    /\ "Kappa" \in DOMAIN emote_all
    /\ emote_all["Kappa"].meta = "7tv"
    /\ resolveCount["Kappa"] >= 1
    /\ "Kappa" \notin failed
    /\ lpc = "recv"
    /\ Drained
    /\ ~crashed

====
